---------------------------- MODULE Spec2Model ----------------------------
(***************************************************************************)
(* Deletion / removal / undo of communities in lemmy: the local API        *)
(* handlers (api_crud/src/community/delete.rs), the inbound federation     *)
(* handler for Delete of a community (apub_receive/.../community/delete.rs)*)
(* and the inbound handler for Undo(Delete) (apub/.../undo_delete.rs).     *)
(*                                                                         *)
(* Every handler is a sequence of steps, one per awaited call of the code; *)
(* a task's position is pc[t].  Every collaborator call that returns a     *)
(* Result may fail: the failure is a nondeterministic choice of the step.  *)
(* trace[t] is the ordered log of the collaborator calls the request has   *)
(* made so far (storage reads and writes, remote fetches, activities       *)
(* enqueued for followers, notifications, moderation-log entries).         *)
(***************************************************************************)
EXTENDS Naturals, Sequences, FiniteSets

\* Number of request-handling tasks.
NumTasks == 2

\* The count of replayed inbound Deletes saturates here.
MaxReplays == 2

\* Aborts of the task handling one inbound Delete.
MaxAborts == 1

Tasks == 1 .. NumTasks

(***************************************************************************)
(* The world: two communities, a post, a comment and five persons.         *)
(***************************************************************************)
Communities == {"c1", "c2"}

\* DeletableObjects::Post and DeletableObjects::Comment: a post and a
\* comment on it, both of the remote community c2.
Posts == {"p1"}

Comments == {"k1"}

\* DeletableObjects: what a Delete or an Undo(Delete) can be about.
Objects == Communities \cup Posts \cup Comments

\* The community a deletable object belongs to (a community: itself).
CommunityOf(o) == IF o \in Communities THEN o ELSE "c2"

Persons == {"m1", "m2", "adm", "rmod", "radm"}

Domains == {"here", "there"}

\* Community.local: c1 is hosted on this server, c2 is a remote community.
Local(c) == c = "c1"

\* Person.local: the persons that can log in here (and so use the API).
LocalPersons == {"m1", "m2", "adm"}

\* Person.admin (LocalUserView.person.admin for local ones).
Admins == {"adm", "radm"}

\* CommunityModeratorView::for_community: the ordered moderator list.
Mods(c) == IF c = "c1" THEN <<"m1", "m2", "rmod">> ELSE <<"rmod">>

IsMod(p, c) == \E i \in DOMAIN Mods(c) : Mods(c)[i] = p

\* The variant of DeletableObjects an object is.
KindOf(o) == IF o \in Posts THEN "post"
             ELSE IF o \in Comments THEN "comment" ELSE "community"

\* The domain of an actor's or object's url.
DomainOf(x) == IF x \in LocalPersons \/ x = "c1" THEN "here" ELSE "there"

\* lemmy_apub_lib::verify_domains_match on two domains.
verify_domains_match(a, b) == a = b

\* The actors an inbound activity may name: persons or a community.
InboundActors == {"adm", "rmod", "radm", "c2"}

\* Who a request's auth token resolves to: a local person, or nobody.
ApiCallers == LocalPersons \cup {"anon"}

NoReq == [op |-> "none", actor |-> "none", idDom |-> "here", object |-> "c1",
          cc |-> "c1", summary |-> FALSE, flag |-> FALSE]

\* DeleteCommunity { community_id, deleted, auth } of the API.
ApiDeleteReqs ==
  { [op |-> "ApiDelete", actor |-> p, idDom |-> "here", object |-> c,
     cc |-> c, summary |-> FALSE, flag |-> f] :
     p \in ApiCallers, c \in Communities, f \in BOOLEAN }

\* RemoveCommunity { community_id, removed, reason, expires, auth } of the API.
ApiRemoveReqs ==
  { [op |-> "ApiRemove", actor |-> p, idDom |-> "here", object |-> c,
     cc |-> c, summary |-> TRUE, flag |-> f] :
     p \in ApiCallers, c \in Communities, f \in BOOLEAN }

\* The inbound DeleteCommunity activity: actor, id, object, cc[0].
InDeleteReqs ==
  { [op |-> "InDelete", actor |-> a, idDom |-> d, object |-> c,
     cc |-> k, summary |-> FALSE, flag |-> TRUE] :
     a \in InboundActors, d \in Domains, c \in Communities, k \in Communities }

\* The inbound UndoDelete activity; summary is object.summary.is_some().
InUndoReqs ==
  { [op |-> "InUndo", actor |-> a, idDom |-> d, object |-> c,
     cc |-> k, summary |-> s, flag |-> FALSE] :
     a \in InboundActors, d \in Domains, c \in Objects, k \in Communities,
     s \in BOOLEAN }

VARIABLES
  deleted,   \* the deleted flag of each object in storage
  removed,   \* the removed flag of each object in storage
  inDb,      \* whether storage holds a row for the object
  lastLog,   \* removed value of the newest ModRemoveCommunity row, per community
  replays,   \* inbound Deletes applied to the community since it was last
             \* not deleted (history, saturating at MaxReplays)
  pc,        \* position of each task in its handler
  req,       \* the request or activity a task is handling
  trace,     \* the collaborator calls the request has made, in order; a
             \* read of a community records whether storage held its row
  res,       \* the handler's result: "none" while running, "ok" or the error
  pre        \* the target's flags, and whether storage knew the target,
             \* when the request arrived

vars == <<deleted, removed, inDb, lastLog, replays, pc, req, trace, res, pre>>

store == <<deleted, removed, inDb, lastLog, replays>>

NoPre == [deleted |-> FALSE, removed |-> FALSE, replays |-> 0, known |-> TRUE]

\* Community::update_deleted(conn, id, v) on the row of c; `inbound` marks
\* the write of an inbound Delete, which the replay count follows.
update_deleted(c, v, inbound) ==
  /\ deleted' = [deleted EXCEPT ![c] = v]
  /\ replays' = [replays EXCEPT ![c] =
                   IF ~v THEN 0
                   ELSE IF inbound /\ @ < MaxReplays THEN @ + 1 ELSE @]

\* Community::update_removed(conn, id, v) on the row of c.
update_removed(c, v) == removed' = [removed EXCEPT ![c] = v]

Ev(e, obj, tag, val, who) ==
  [e |-> e, obj |-> obj, tag |-> tag, val |-> val, who |-> who]

Log(t, ev) == trace' = [trace EXCEPT ![t] = Append(@, ev)]

Goto(t, l) == pc' = [pc EXCEPT ![t] = l]

\* The handler returns Err(e): nothing further runs.
Fail(t, e) == /\ pc' = [pc EXCEPT ![t] = "done"]
              /\ res' = [res EXCEPT ![t] = e]

\* The handler returns Ok.
Finish(t) == /\ pc' = [pc EXCEPT ![t] = "done"]
             /\ res' = [res EXCEPT ![t] = "ok"]

Init ==
  /\ deleted = [c \in Objects |-> FALSE]
  /\ removed = [c \in Objects |-> FALSE]
  /\ inDb \in {f \in [Objects -> BOOLEAN] :
                 \A o \in Objects \ {"c2"} : f[o]}
  /\ lastLog = [c \in Communities |-> "none"]
  /\ replays = [c \in Objects |-> 0]
  /\ pc = [t \in Tasks |-> "idle"]
  /\ req = [t \in Tasks |-> NoReq]
  /\ trace = [t \in Tasks |-> <<>>]
  /\ res = [t \in Tasks |-> "none"]
  /\ pre = [t \in Tasks |-> NoPre]

\* A request or an activity arrives and a task starts handling it.
Arrive(t, r, first) ==
  /\ pc[t] = "idle"
  /\ req' = [req EXCEPT ![t] = r]
  /\ pc' = [pc EXCEPT ![t] = first]
  /\ pre' = [pre EXCEPT ![t] = [deleted |-> deleted[r.object],
                                removed |-> removed[r.object],
                                replays |-> replays[r.object],
                                known |-> inDb[r.object]]]
  /\ UNCHANGED <<store, trace, res>>

\* The result is handed back; the task is free for the next request.
Return(t) ==
  /\ pc[t] = "done"
  /\ pc' = [pc EXCEPT ![t] = "idle"]
  /\ req' = [req EXCEPT ![t] = NoReq]
  /\ trace' = [trace EXCEPT ![t] = <<>>]
  /\ res' = [res EXCEPT ![t] = "none"]
  /\ pre' = [pre EXCEPT ![t] = NoPre]
  /\ UNCHANGED store

(***************************************************************************)
(* DeleteCommunity::perform (api_crud).                                    *)
(***************************************************************************)
StartApiDelete(t) == \E r \in ApiDeleteReqs : Arrive(t, r, "d_auth")

\* CommunityModeratorView::for_community(conn, community_id): the rows of
\* the moderator table, none for a community storage does not hold.
for_community(c) == IF inDb[c] THEN Mods(c) ELSE <<>>

\* DeleteAuth with admins let through as well as the top moderator.
DeleteAuth_AdminAllowed(t) ==
  /\ pc[t] = "d_auth"
  /\ \/ /\ req[t].actor = "anon"
        /\ Fail(t, "not_logged_in")
        /\ UNCHANGED trace
     \/ /\ req[t].actor # "anon"
        /\ Log(t, Ev("read", req[t].object, "mods", FALSE, "none"))
        /\ \/ Fail(t, "StorageError")
           \/ /\ for_community(req[t].object) = <<>>
              /\ Fail(t, "panic")
           \/ /\ for_community(req[t].object) # <<>>
              /\ req[t].actor # for_community(req[t].object)[1]
              /\ req[t].actor \notin Admins
              /\ Fail(t, "no_community_edit_allowed")
           \/ /\ for_community(req[t].object) # <<>>
              /\ \/ req[t].actor = for_community(req[t].object)[1]
                 \/ req[t].actor \in Admins
              /\ Goto(t, "d_update")
              /\ UNCHANGED res
  /\ UNCHANGED <<store, req, pre>>

\* get_local_user_view_from_jwt, for_community, and the top-mod check;
\* community_mods[0] panics on an empty list.
DeleteAuth(t) ==
  /\ pc[t] = "d_auth"
  /\ \/ /\ req[t].actor = "anon"
        /\ Fail(t, "not_logged_in")
        /\ UNCHANGED trace
     \/ /\ req[t].actor # "anon"
        /\ Log(t, Ev("read", req[t].object, "mods", FALSE, "none"))
        /\ \/ Fail(t, "StorageError")
           \/ /\ for_community(req[t].object) = <<>>
              /\ Fail(t, "panic")
           \/ /\ for_community(req[t].object) # <<>>
              /\ req[t].actor # for_community(req[t].object)[1]
              /\ Fail(t, "no_community_edit_allowed")
           \/ /\ for_community(req[t].object) # <<>>
              /\ req[t].actor = for_community(req[t].object)[1]
              /\ Goto(t, "d_update")
              /\ UNCHANGED res
  /\ UNCHANGED <<store, req, pre>>

\* Community::update_deleted(conn, community_id, deleted)
DeleteUpdate(t) ==
  /\ pc[t] = "d_update"
  /\ \/ /\ Fail(t, "StorageError")
        /\ UNCHANGED <<deleted, replays, trace>>
     \/ /\ inDb[req[t].object]
        /\ update_deleted(req[t].object, req[t].flag, FALSE)
        /\ Log(t, Ev("write", req[t].object, "deleted", req[t].flag, "none"))
        /\ Goto(t, "d_send")
        /\ UNCHANGED res
  /\ UNCHANGED <<removed, inDb, lastLog, req, pre>>

\* send_apub_delete(person, community, object, deleted, context).await?
DeleteSend(t) ==
  /\ pc[t] = "d_send"
  /\ \/ /\ Fail(t, "ForwardError")
        /\ UNCHANGED trace
     \/ /\ Log(t, Ev("fwd", req[t].object,
                     IF req[t].flag THEN "Delete" ELSE "UndoDelete",
                     FALSE, req[t].actor))
        /\ Goto(t, "d_ws")
        /\ UNCHANGED res
  /\ UNCHANGED <<store, req, pre>>

\* DeleteWs without the acting person.
DeleteWs_NoPerson(t) ==
  /\ pc[t] = "d_ws"
  /\ \/ /\ Fail(t, "NotifyError")
        /\ UNCHANGED trace
     \/ /\ Log(t, Ev("notify", req[t].object, "DeleteCommunity", FALSE, "none"))
        /\ Finish(t)
  /\ UNCHANGED <<store, req, pre>>

\* send_community_ws_message(community_id, DeleteCommunity, ws, Some(person))
DeleteWs(t) ==
  /\ pc[t] = "d_ws"
  /\ \/ /\ Fail(t, "NotifyError")
        /\ UNCHANGED trace
     \/ /\ Log(t, Ev("notify", req[t].object, "DeleteCommunity", FALSE,
                     req[t].actor))
        /\ Finish(t)
  /\ UNCHANGED <<store, req, pre>>

(***************************************************************************)
(* RemoveCommunity::perform (api_crud).                                    *)
(***************************************************************************)
StartApiRemove(t) == \E r \in ApiRemoveReqs : Arrive(t, r, "r_auth")

\* lemmy_api_common::is_admin: Err("not_an_admin") unless person.admin.
is_admin(p) == p \in Admins

\* RemoveAuth without the is_admin check.
RemoveAuth_NoAdminCheck(t) ==
  /\ pc[t] = "r_auth"
  /\ \/ /\ req[t].actor = "anon"
        /\ Fail(t, "not_logged_in")
     \/ /\ req[t].actor # "anon"
        /\ Goto(t, "r_update")
        /\ UNCHANGED res
  /\ UNCHANGED <<store, req, trace, pre>>

\* get_local_user_view_from_jwt, then is_admin(&local_user_view)?
RemoveAuth(t) ==
  /\ pc[t] = "r_auth"
  /\ \/ /\ req[t].actor = "anon"
        /\ Fail(t, "not_logged_in")
     \/ /\ req[t].actor # "anon"
        /\ ~is_admin(req[t].actor)
        /\ Fail(t, "not_an_admin")
     \/ /\ is_admin(req[t].actor)
        /\ Goto(t, "r_update")
        /\ UNCHANGED res
  /\ UNCHANGED <<store, req, trace, pre>>

\* Community::update_removed(conn, community_id, removed)
RemoveUpdate(t) ==
  /\ pc[t] = "r_update"
  /\ \/ /\ Fail(t, "StorageError")
        /\ UNCHANGED <<removed, trace>>
     \/ /\ inDb[req[t].object]
        /\ update_removed(req[t].object, req[t].flag)
        /\ Log(t, Ev("write", req[t].object, "removed", req[t].flag, "none"))
        /\ Goto(t, "r_log")
        /\ UNCHANGED res
  /\ UNCHANGED <<deleted, inDb, lastLog, replays, req, pre>>

\* ModRemoveCommunity::create(conn, &form)
RemoveLog(t) ==
  /\ pc[t] = "r_log"
  /\ \/ /\ Fail(t, "StorageError")
        /\ UNCHANGED <<lastLog, trace>>
     \/ /\ lastLog' = [lastLog EXCEPT ![req[t].object] =
                         IF req[t].flag THEN "removed" ELSE "restored"]
        /\ Log(t, Ev("log", req[t].object, "ModRemoveCommunity", req[t].flag,
                     req[t].actor))
        /\ Goto(t, "r_send")
        /\ UNCHANGED res
  /\ UNCHANGED <<deleted, removed, inDb, replays, req, pre>>

\* send_apub_remove(person, community, object, reason, removed, context).await?
RemoveSend(t) ==
  /\ pc[t] = "r_send"
  /\ \/ /\ Fail(t, "ForwardError")
        /\ UNCHANGED trace
     \/ /\ Log(t, Ev("fwd", req[t].object,
                     IF req[t].flag THEN "Delete" ELSE "UndoDelete",
                     TRUE, req[t].actor))
        /\ Goto(t, "r_ws")
        /\ UNCHANGED res
  /\ UNCHANGED <<store, req, pre>>

\* send_community_ws_message(community_id, RemoveCommunity, ws, Some(person))
RemoveWs(t) ==
  /\ pc[t] = "r_ws"
  /\ \/ /\ Fail(t, "NotifyError")
        /\ UNCHANGED trace
     \/ /\ Log(t, Ev("notify", req[t].object, "RemoveCommunity", FALSE,
                     req[t].actor))
        /\ Finish(t)
  /\ UNCHANGED <<store, req, pre>>

(***************************************************************************)
(* Inbound DeleteCommunity (apub_receive): verify, then receive.           *)
(***************************************************************************)
StartInDelete(t) == \E r \in InDeleteReqs : Arrive(t, r, "i_verify")

\* Community::read_from_apub_id: the row if storage holds one; any storage
\* error is an Err as well, which the callers treat as "not found".
read_from_apub_id(c) == {inDb[c], FALSE}

\* verify_mod_action(actor, community): the actor is a moderator of the
\* community as storage knows it.
verify_mod_action(a, c) == IsMod(a, c)

\* InDeleteVerify with the community read before the domain check.
InDeleteVerify_ReadFirst(t) ==
  /\ pc[t] = "i_verify"
  /\ Log(t, Ev("read", req[t].object, "community", inDb[req[t].object], "none"))
  /\ \/ /\ ~verify_domains_match(DomainOf(req[t].actor), req[t].idDom)
        /\ Fail(t, "VerificationError")
     \/ /\ verify_domains_match(DomainOf(req[t].actor), req[t].idDom)
        /\ \/ Fail(t, "StorageError")
           \/ /\ verify_mod_action(req[t].actor, req[t].object)
              /\ Goto(t, "i_read")
              /\ UNCHANGED res
           \/ /\ ~verify_mod_action(req[t].actor, req[t].object)
              /\ Fail(t, "NotAuthorized")
  /\ UNCHANGED <<store, req, pre>>

\* DeleteCommunity::verify
InDeleteVerify(t) ==
  /\ pc[t] = "i_verify"
  /\ \/ /\ ~verify_domains_match(DomainOf(req[t].actor), req[t].idDom)
        /\ Fail(t, "VerificationError")
        /\ UNCHANGED trace
     \/ /\ verify_domains_match(DomainOf(req[t].actor), req[t].idDom)
        /\ Log(t, Ev("read", req[t].object, "community", inDb[req[t].object], "none"))
        /\ \/ Fail(t, "StorageError")
           \/ \E found \in read_from_apub_id(req[t].object) :
                IF found
                THEN \* remote mod action on local community
                  IF /\ verify_domains_match(DomainOf(req[t].object),
                                             DomainOf(req[t].cc))
                     /\ verify_mod_action(req[t].actor, req[t].object)
                  THEN \/ Fail(t, "VerificationError") \* check_is_apub_id_valid
                       \/ Goto(t, "i_read") /\ UNCHANGED res
                  ELSE Fail(t, IF verify_domains_match(DomainOf(req[t].object),
                                                       DomainOf(req[t].cc))
                               THEN "NotAuthorized" ELSE "VerificationError")
                ELSE \* community action sent to followers
                  IF /\ verify_domains_match(DomainOf(req[t].actor),
                                             DomainOf(req[t].object))
                     /\ verify_domains_match(DomainOf(req[t].actor),
                                             DomainOf(req[t].cc))
                  THEN Goto(t, "i_read") /\ UNCHANGED res
                  ELSE Fail(t, "VerificationError")
  /\ UNCHANGED <<store, req, pre>>

\* DeleteCommunity::receive: Community::read_from_apub_id and the match on it
InDeleteRead(t) ==
  /\ pc[t] = "i_read"
  /\ Log(t, Ev("read", req[t].object, "community", inDb[req[t].object], "none"))
  /\ \/ Fail(t, "StorageError")
     \/ \E found \in read_from_apub_id(req[t].object) :
          /\ Goto(t, IF found THEN "i_person" ELSE "i_fetch")
          /\ UNCHANGED res
  /\ UNCHANGED <<store, req, pre>>

\* get_or_fetch_and_upsert_person(&self.common.actor, ..).await?
InDeletePerson(t) ==
  /\ pc[t] = "i_person"
  /\ Log(t, Ev("fetch", req[t].actor, "person", FALSE, "none"))
  /\ \/ Fail(t, "UnresolvableObject")
     \/ /\ req[t].actor \in Persons
        /\ Goto(t, "i_fwd")
        /\ UNCHANGED res
  /\ UNCHANGED <<store, req, pre>>

\* c.send_delete(actor, context).await?
InDeleteForward(t) ==
  /\ pc[t] = "i_fwd"
  /\ \/ /\ Fail(t, "ForwardError")
        /\ UNCHANGED trace
     \/ /\ Log(t, Ev("fwd", req[t].object, "Delete", FALSE, req[t].actor))
        /\ Goto(t, "i_update")
        /\ UNCHANGED res
  /\ UNCHANGED <<store, req, pre>>

\* get_or_fetch_and_upsert_community(&self.object, ..).await?
InDeleteFetch(t) ==
  /\ pc[t] = "i_fetch"
  /\ Log(t, Ev("fetch", req[t].object, "community", FALSE, "none"))
  /\ \/ /\ Fail(t, "UnresolvableObject")
        /\ UNCHANGED inDb
     \/ /\ inDb' = [inDb EXCEPT ![req[t].object] = TRUE]
        /\ Goto(t, "i_update")
        /\ UNCHANGED res
  /\ UNCHANGED <<deleted, removed, lastLog, replays, req, pre>>

\* InDeleteUpdate with the write skipped when the flag is already set.
InDeleteUpdate_SkipWhenDeleted(t) ==
  /\ pc[t] = "i_update"
  /\ \/ /\ Fail(t, "StorageError")
        /\ UNCHANGED <<deleted, replays, trace>>
     \/ /\ inDb[req[t].object]
        /\ deleted[req[t].object]
        /\ Goto(t, "i_ws")
        /\ UNCHANGED <<deleted, replays, trace, res>>
     \/ /\ inDb[req[t].object]
        /\ ~deleted[req[t].object]
        /\ update_deleted(req[t].object, TRUE, TRUE)
        /\ Log(t, Ev("write", req[t].object, "deleted", TRUE, "none"))
        /\ Goto(t, "i_ws")
        /\ UNCHANGED res
  /\ UNCHANGED <<removed, inDb, lastLog, req, pre>>

\* InDeleteUpdate with the storage error dropped instead of returned.
InDeleteUpdate_ErrorIgnored(t) ==
  /\ pc[t] = "i_update"
  /\ \/ /\ Goto(t, "i_ws")
        /\ UNCHANGED <<deleted, replays, trace, res>>
     \/ /\ inDb[req[t].object]
        /\ update_deleted(req[t].object, TRUE, TRUE)
        /\ Log(t, Ev("write", req[t].object, "deleted", TRUE, "none"))
        /\ Goto(t, "i_ws")
        /\ UNCHANGED res
  /\ UNCHANGED <<removed, inDb, lastLog, req, pre>>

\* Community::update_deleted(conn, community_id, true)
InDeleteUpdate(t) ==
  /\ pc[t] = "i_update"
  /\ \/ /\ Fail(t, "StorageError")
        /\ UNCHANGED <<deleted, replays, trace>>
     \/ /\ inDb[req[t].object]
        /\ update_deleted(req[t].object, TRUE, TRUE)
        /\ Log(t, Ev("write", req[t].object, "deleted", TRUE, "none"))
        /\ Goto(t, "i_ws")
        /\ UNCHANGED res
  /\ UNCHANGED <<removed, inDb, lastLog, req, pre>>

\* InDeleteWs with the notification left out when nothing changed.
InDeleteWs_QuietOnReplay(t) ==
  /\ pc[t] = "i_ws"
  /\ \/ /\ Fail(t, "NotifyError")
        /\ UNCHANGED trace
     \/ /\ pre[t].deleted
        /\ Finish(t)
        /\ UNCHANGED trace
     \/ /\ ~pre[t].deleted
        /\ Log(t, Ev("notify", req[t].object, "DeleteCommunity", FALSE, "none"))
        /\ Finish(t)
  /\ UNCHANGED <<store, req, pre>>

\* send_websocket_message(deleted_community.id, DeleteCommunity, context)
InDeleteWs(t) ==
  /\ pc[t] = "i_ws"
  /\ \/ /\ Fail(t, "NotifyError")
        /\ UNCHANGED trace
     \/ /\ Log(t, Ev("notify", req[t].object, "DeleteCommunity", FALSE, "none"))
        /\ Finish(t)
  /\ UNCHANGED <<store, req, pre>>

\* The markers of the earlier, aborted deliveries of the activity.
Aborts(t) == {i \in DOMAIN trace[t] : trace[t][i].e = "abort"}

\* The task is dropped at the await between the committed update_deleted and
\* send_websocket_message: the flag stays, the notification is not sent.
InDeleteAbort(t) ==
  /\ pc[t] = "i_ws"
  /\ Cardinality(Aborts(t)) < MaxAborts
  /\ Log(t, Ev("abort", req[t].object, "committed", TRUE, "none"))
  /\ Fail(t, "aborted")
  /\ UNCHANGED <<store, req, pre>>

\* The federation transport delivers the aborted activity again: the same
\* activity enters verify anew, against storage as the first delivery left it.
InDeleteRedeliver(t) ==
  /\ pc[t] = "done"
  /\ res[t] = "aborted"
  /\ pc' = [pc EXCEPT ![t] = "i_verify"]
  /\ res' = [res EXCEPT ![t] = "none"]
  /\ trace' = [trace EXCEPT ![t] = SelectSeq(@, LAMBDA ev : ev.e = "abort")]
  /\ pre' = [pre EXCEPT ![t] = [deleted |-> deleted[req[t].object],
                                removed |-> removed[req[t].object],
                                replays |-> replays[req[t].object],
                                known |-> inDb[req[t].object]]]
  /\ UNCHANGED <<store, req>>

(***************************************************************************)
(* Inbound UndoDelete (apub): verify, then receive.                        *)
(***************************************************************************)
StartInUndo(t) == \E r \in InUndoReqs : Arrive(t, r, "u_verify")

Outcome(r, evs) == [res |-> r, evs |-> evs]

\* verify_activity(common): the actor's domain is the domain of the id.
verify_activity(r) == verify_domains_match(DomainOf(r.actor), r.idDom)

\* Who may delete or restore an object, or with a summary remove or
\* un-remove it: a moderator of its community, or an admin for a mod action;
\* a post or a comment is deleted and restored by an actor of its own domain.
Authorized(r) ==
  IF r.object \in Communities \/ r.summary
  THEN \/ verify_mod_action(r.actor, CommunityOf(r.object))
       \/ (r.summary /\ r.actor \in Admins)
  ELSE verify_domains_match(DomainOf(r.actor), DomainOf(r.object))

\* verify_delete_activity(object, cc, common, is_mod_action, ..): the
\* outcomes it can have, each with the collaborator calls made up to it.
\* Audience, then the object as storage knows it, then authorization,
\* then the actor's liveness.
verify_delete_activity(r) ==
  LET rd == Ev("read", r.object, KindOf(r.object), FALSE, "none")
      ft == Ev("fetch", r.actor, "actor", FALSE, "none")
  IN IF ~verify_domains_match(DomainOf(r.object), DomainOf(r.cc))
     THEN {Outcome("VerificationError", <<>>)}
     ELSE {Outcome("StorageError", <<rd>>)} \cup
          (IF ~inDb[r.object]
           THEN {Outcome("UnresolvableObject", <<rd>>)}
           ELSE IF ~Authorized(r)
           THEN {Outcome("NotAuthorized", <<rd>>)}
           ELSE {Outcome("VerificationError", <<rd, ft>>),
                 Outcome("ok", <<rd, ft>>)})

\* Delete::verify of the wrapped Delete, which carries the same actor and
\* an id of the same domain as the Undo (see UndoDelete::send).
DeleteVerify(r) ==
  IF ~verify_activity(r)
  THEN {Outcome("VerificationError", <<>>)}
  ELSE verify_delete_activity(r)

\* UndoDelete::verify: verify_activity, object.verify, verify_delete_activity
UndoVerifyOutcomes(r) ==
  IF ~verify_activity(r)
  THEN {Outcome("VerificationError", <<>>)}
  ELSE LET inner == DeleteVerify(r)
       IN {o \in inner : o.res # "ok"} \cup
          UNION { {Outcome(o2.res, o1.evs \o o2.evs) :
                     o2 \in verify_delete_activity(r)} :
                  o1 \in {o \in inner : o.res = "ok"} }

InUndoVerify(t) ==
  /\ pc[t] = "u_verify"
  /\ \E o \in UndoVerifyOutcomes(req[t]) :
       /\ trace' = [trace EXCEPT ![t] = @ \o o.evs]
       /\ IF o.res = "ok"
          THEN Goto(t, "u_recv") /\ UNCHANGED res
          ELSE Fail(t, o.res)
  /\ UNCHANGED <<store, req, pre>>

\* InUndoReceive with the test of the summary inverted.
InUndoReceive_Inverted(t) ==
  /\ pc[t] = "u_recv"
  /\ Goto(t, IF req[t].summary THEN "u_del_read" ELSE "u_rm_read")
  /\ UNCHANGED <<store, req, trace, res, pre>>

\* UndoDelete::receive: the summary of the wrapped Delete picks the action.
InUndoReceive(t) ==
  /\ pc[t] = "u_recv"
  /\ Goto(t, IF req[t].summary THEN "u_rm_read" ELSE "u_del_read")
  /\ UNCHANGED <<store, req, trace, res, pre>>

\* UndoRemoveRead without the test of community.local.
UndoRemoveRead_NoLocalCheck(t) ==
  /\ pc[t] = "u_rm_read"
  /\ Log(t, Ev("read", req[t].object, KindOf(req[t].object), FALSE, "none"))
  /\ \/ Fail(t, "StorageError")
     \/ /\ ~inDb[req[t].object]
        /\ Fail(t, "UnresolvableObject")
     \/ /\ inDb[req[t].object]
        /\ Goto(t, "u_rm_update")
        /\ UNCHANGED res
  /\ UNCHANGED <<store, req, pre>>

\* UndoRemoveRead with the test of community.local inverted.
UndoRemoveRead_LocalInverted(t) ==
  /\ pc[t] = "u_rm_read"
  /\ Log(t, Ev("read", req[t].object, KindOf(req[t].object), FALSE, "none"))
  /\ \/ Fail(t, "StorageError")
     \/ /\ ~inDb[req[t].object]
        /\ Fail(t, "UnresolvableObject")
     \/ /\ inDb[req[t].object]
        /\ IF req[t].object \in Communities /\ ~Local(req[t].object)
           THEN Fail(t, "only_local_admin_can_restore")
           ELSE Goto(t, "u_rm_update") /\ UNCHANGED res
  /\ UNCHANGED <<store, req, pre>>

\* receive_undo_remove_action: DeletableObjects::read_from_db(object)? and
\* the check of community.local
UndoRemoveRead(t) ==
  /\ pc[t] = "u_rm_read"
  /\ Log(t, Ev("read", req[t].object, KindOf(req[t].object), FALSE, "none"))
  /\ \/ Fail(t, "StorageError")
     \/ /\ ~inDb[req[t].object]
        /\ Fail(t, "UnresolvableObject")
     \/ /\ inDb[req[t].object]
        /\ IF req[t].object \in Communities /\ Local(req[t].object)
           THEN Fail(t, "only_local_admin_can_restore")
           ELSE Goto(t, "u_rm_update") /\ UNCHANGED res
  /\ UNCHANGED <<store, req, pre>>

\* UndoRemoveUpdate refusing an object that is not removed.
UndoRemoveUpdate_RejectsActive(t) ==
  /\ pc[t] = "u_rm_update"
  /\ \/ /\ Fail(t, "StorageError")
        /\ UNCHANGED <<removed, trace>>
     \/ /\ ~removed[req[t].object]
        /\ Fail(t, "not_removed")
        /\ UNCHANGED <<removed, trace>>
     \/ /\ inDb[req[t].object]
        /\ removed[req[t].object]
        /\ update_removed(req[t].object, FALSE)
        /\ Log(t, Ev("write", req[t].object, "removed", FALSE, "none"))
        /\ Goto(t, "u_rm_ws")
        /\ UNCHANGED res
  /\ UNCHANGED <<deleted, inDb, lastLog, replays, req, pre>>

\* UndoRemoveUpdate clearing the deleted flag along with the removed flag.
UndoRemoveUpdate_ClearsBoth(t) ==
  /\ pc[t] = "u_rm_update"
  /\ \/ /\ Fail(t, "StorageError")
        /\ UNCHANGED <<deleted, replays, removed, trace>>
     \/ /\ inDb[req[t].object]
        /\ update_removed(req[t].object, FALSE)
        /\ update_deleted(req[t].object, FALSE, FALSE)
        /\ Log(t, Ev("write", req[t].object, "removed", FALSE, "none"))
        /\ Goto(t, "u_rm_ws")
        /\ UNCHANGED res
  /\ UNCHANGED <<inDb, lastLog, req, pre>>

\* Community::update_removed(conn, community.id, false), and likewise
\* Post::update_removed and Comment::update_removed
UndoRemoveUpdate(t) ==
  /\ pc[t] = "u_rm_update"
  /\ \/ /\ Fail(t, "StorageError")
        /\ UNCHANGED <<removed, trace>>
     \/ /\ inDb[req[t].object]
        /\ update_removed(req[t].object, FALSE)
        /\ Log(t, Ev("write", req[t].object, "removed", FALSE, "none"))
        /\ Goto(t, "u_rm_ws")
        /\ UNCHANGED res
  /\ UNCHANGED <<deleted, inDb, lastLog, replays, req, pre>>

\* The UserOperationCrud of an edit, by the object's variant.
EditOp(o) == IF o \in Posts THEN "EditPost"
             ELSE IF o \in Comments THEN "EditComment" ELSE "EditCommunity"

\* send_community_ws_message(deleted_community.id, EditCommunity, None, None),
\* send_post_ws_message(.., EditPost, ..), send_comment_ws_message_simple(..,
\* EditComment, ..)
UndoRemoveWs(t) ==
  /\ pc[t] = "u_rm_ws"
  /\ \/ /\ Fail(t, "NotifyError")
        /\ UNCHANGED trace
     \/ /\ Log(t, Ev("notify", req[t].object, EditOp(req[t].object), FALSE,
                     "none"))
        /\ Finish(t)
  /\ UNCHANGED <<store, req, pre>>

\* receive_delete_action: DeletableObjects::read_from_db(object)?
receive_delete_action_read(t, next) ==
  /\ Log(t, Ev("read", req[t].object, KindOf(req[t].object), FALSE, "none"))
  /\ \/ Fail(t, "StorageError")
     \/ /\ ~inDb[req[t].object]
        /\ Fail(t, "UnresolvableObject")
     \/ /\ inDb[req[t].object]
        /\ Goto(t, next)
        /\ UNCHANGED res
  /\ UNCHANGED <<store, req, pre>>

\* receive_delete_action: the update of the deleted flag to `del`; a local
\* community's change is then forwarded to its followers.
receive_delete_action_update(t, del, fwd, ws) ==
  /\ \/ /\ Fail(t, "StorageError")
        /\ UNCHANGED <<deleted, replays, trace>>
     \/ /\ inDb[req[t].object]
        /\ update_deleted(req[t].object, del, FALSE)
        /\ Log(t, Ev("write", req[t].object, "deleted", del, "none"))
        /\ Goto(t, IF req[t].object \in Communities /\ Local(req[t].object)
                   THEN fwd ELSE ws)
        /\ UNCHANGED res
  /\ UNCHANGED <<removed, inDb, lastLog, req, pre>>

\* receive_delete_action: forwarding to the followers; a failure is logged
\* and swallowed.
receive_delete_action_forward(t, del, ws) ==
  /\ \/ UNCHANGED trace
     \/ Log(t, Ev("fwd", req[t].object,
                  IF del THEN "Delete" ELSE "UndoDelete", FALSE, req[t].actor))
  /\ Goto(t, ws)
  /\ UNCHANGED <<store, req, res, pre>>

\* receive_delete_action: the notification, tagged with the entry of
\* ws_messages for the object's variant.
receive_delete_action_ws(t, ws_messages) ==
  /\ \/ /\ Fail(t, "NotifyError")
        /\ UNCHANGED trace
     \/ /\ Log(t, Ev("notify", req[t].object,
                     ws_messages[KindOf(req[t].object)], FALSE, "none"))
        /\ Finish(t)
  /\ UNCHANGED <<store, req, pre>>

\* UndoDelete::receive, no summary: receive_delete_action(object, actor,
\* WebsocketMessages { community: EditCommunity, post: EditPost, comment:
\* EditComment }, false, ..)
UndoDeleteRead(t) ==
  /\ pc[t] = "u_del_read"
  /\ receive_delete_action_read(t, "u_del_update")

UndoDeleteUpdate(t) ==
  /\ pc[t] = "u_del_update"
  /\ receive_delete_action_update(t, FALSE, "u_del_fwd", "u_del_ws")

UndoDeleteForward(t) ==
  /\ pc[t] = "u_del_fwd"
  /\ receive_delete_action_forward(t, FALSE, "u_del_ws")

UndoDeleteWs(t) ==
  /\ pc[t] = "u_del_ws"
  /\ receive_delete_action_ws(t, [community |-> "EditCommunity",
                                  post |-> "EditPost",
                                  comment |-> "EditComment"])

Step(t) ==
  \/ StartApiDelete(t)
  \/ DeleteAuth(t)
  \/ DeleteUpdate(t)
  \/ DeleteSend(t)
  \/ DeleteWs(t)
  \/ StartApiRemove(t)
  \/ RemoveAuth(t)
  \/ RemoveUpdate(t)
  \/ RemoveLog(t)
  \/ RemoveSend(t)
  \/ RemoveWs(t)
  \/ StartInDelete(t)
  \/ InDeleteVerify(t)
  \/ InDeleteRead(t)
  \/ InDeletePerson(t)
  \/ InDeleteForward(t)
  \/ InDeleteFetch(t)
  \/ InDeleteUpdate(t)
  \/ InDeleteWs(t)
  \/ InDeleteAbort(t)
  \/ InDeleteRedeliver(t)
  \/ StartInUndo(t)
  \/ InUndoVerify(t)
  \/ InUndoReceive(t)
  \/ UndoRemoveRead(t)
  \/ UndoRemoveUpdate(t)
  \/ UndoRemoveWs(t)
  \/ UndoDeleteRead(t)
  \/ UndoDeleteUpdate(t)
  \/ UndoDeleteForward(t)
  \/ UndoDeleteWs(t)
  \/ Return(t)

\* One request at a time: task 1 handles every request to its end.
Next == Step(1)

Spec == Init /\ [][Next]_vars

(***************************************************************************)
(* Concurrent handling: every task handles one request, and the steps of   *)
(* the tasks interleave at the awaits.  The requests are those of an       *)
(* admin's RemoveCommunity on the local community and of a Delete of the   *)
(* remote community, sent to the followers in the community's name or in   *)
(* its moderator's.                                                        *)
(***************************************************************************)
ConcRemoveReqs ==
  {r \in ApiRemoveReqs : r.actor = "adm" /\ r.object = "c1"}

ConcInDeleteReqs ==
  {r \in InDeleteReqs : /\ r.actor \in {"c2", "rmod"}
                        /\ r.idDom = "there"
                        /\ r.object = "c2"
                        /\ r.cc = "c2"}

ConcStartApiRemove(t) == \E r \in ConcRemoveReqs : Arrive(t, r, "r_auth")

ConcStartInDelete(t) == \E r \in ConcInDeleteReqs : Arrive(t, r, "i_verify")

StepConc(t) ==
  \/ ConcStartApiRemove(t)
  \/ RemoveAuth(t)
  \/ RemoveUpdate(t)
  \/ RemoveLog(t)
  \/ RemoveSend(t)
  \/ RemoveWs(t)
  \/ ConcStartInDelete(t)
  \/ InDeleteVerify(t)
  \/ InDeleteRead(t)
  \/ InDeletePerson(t)
  \/ InDeleteForward(t)
  \/ InDeleteFetch(t)
  \/ InDeleteUpdate(t)
  \/ InDeleteWs(t)

NextConc == \E t \in Tasks : StepConc(t)

SpecConc == Init /\ [][NextConc]_vars

(***************************************************************************)
(* What a request has done so far, read off its trace.                     *)
(***************************************************************************)
Events(t, e) == {i \in DOMAIN trace[t] : trace[t][i].e = e}

Done(t) == pc[t] = "done"

Succeeded(t) == pc[t] = "done" /\ res[t] = "ok"

\* The flag writes of the request are exactly one write of `flag` to `v`.
WroteOnce(t, flag, v) ==
  /\ Cardinality(Events(t, "write")) = 1
  /\ \A i \in Events(t, "write") :
       /\ trace[t][i].obj = req[t].object
       /\ trace[t][i].tag = flag
       /\ trace[t][i].val = v

\* The notifications of the request are exactly one, tagged `tag`, by `who`.
NotifiedOnce(t, tag, who) ==
  /\ Cardinality(Events(t, "notify")) = 1
  /\ \A i \in Events(t, "notify") :
       /\ trace[t][i].obj = req[t].object
       /\ trace[t][i].tag = tag
       /\ trace[t][i].who = who

\* The errors of a verification or of a collaborator (storage, remote
\* fetch, follower queue, notification) and the task's abort, as opposed
\* to a handler's own errors.
OutsideErrors ==
  {"VerificationError", "NotAuthorized", "StorageError",
   "UnresolvableObject", "ForwardError", "NotifyError", "aborted"}

C2_UndoRestoresBothFlags ==
  \A t \in Tasks :
    (req[t].op = "InUndo" /\ ~req[t].summary /\ pre[t].replays >= 1
       /\ Succeeded(t)) =>
      /\ ~deleted[req[t].object]
      /\ ~removed[req[t].object]

(***************************************************************************)
(* C2 amended: after n >= 1 replays of a Delete, an Undo of a Delete       *)
(* without summary sets deleted=false with one write and leaves removed as *)
(* it was when the Undo arrived.                                           *)
(***************************************************************************)
C2_UndoRestoresDeleted ==
  \A t \in Tasks :
    (req[t].op = "InUndo" /\ ~req[t].summary /\ pre[t].replays >= 1
       /\ Succeeded(t)) =>
      /\ ~deleted[req[t].object]
      /\ removed[req[t].object] = pre[t].removed
      /\ WroteOnce(t, "deleted", FALSE)
      /\ replays[req[t].object] = 0

\* An Undo that arrived after MaxReplays receipts of the Delete.
C2_Witness ==
  \E t \in Tasks :
    /\ req[t].op = "InUndo"
    /\ ~req[t].summary
    /\ pre[t].replays = MaxReplays
    /\ pre[t].deleted
    /\ Succeeded(t)
    /\ ~deleted[req[t].object]

(***************************************************************************)
(* C3: an inbound Delete or Undo(Delete) whose actor's domain is not the   *)
(* domain of its id never leaves verify, is rejected there, and has made   *)
(* no storage read, no storage write and no remote fetch.                  *)
(***************************************************************************)
C3_SpoofedRejectedFirst ==
  \A t \in Tasks :
    (req[t].op \in {"InDelete", "InUndo"}
       /\ DomainOf(req[t].actor) # req[t].idDom) =>
      /\ pc[t] \in {"i_verify", "u_verify", "done"}
      /\ trace[t] = <<>>
      /\ Done(t) => res[t] = "VerificationError"
      /\ deleted[req[t].object] = pre[t].deleted
      /\ removed[req[t].object] = pre[t].removed

C3_Witness ==
  \E t \in Tasks :
    /\ req[t].op = "InDelete"
    /\ DomainOf(req[t].actor) # req[t].idDom
    /\ IsMod(req[t].actor, req[t].object)
    /\ Done(t)
    /\ res[t] = "VerificationError"

(***************************************************************************)
(* C4: a RemoveCommunity request of a logged-in person who is not an admin *)
(* (the top moderator included) fails with not_an_admin, and has written   *)
(* no flag and no moderation-log entry, notified nobody and forwarded      *)
(* nothing.                                                                *)
(***************************************************************************)
C4_RemoveNeedsAdmin ==
  \A t \in Tasks :
    (req[t].op = "ApiRemove" /\ req[t].actor \in LocalPersons \ Admins) =>
      /\ pc[t] \in {"r_auth", "done"}
      /\ trace[t] = <<>>
      /\ Done(t) => res[t] = "not_an_admin"
      /\ removed[req[t].object] = pre[t].removed

\* A lower moderator, neither top moderator nor admin, was turned away.
C4_Witness ==
  \E t \in Tasks :
    /\ req[t].op = "ApiRemove"
    /\ req[t].actor = "m2"
    /\ req[t].flag # removed[req[t].object]
    /\ Done(t)
    /\ res[t] = "not_an_admin"

C6_OnlyTopModDeletes ==
  \A t \in Tasks :
    (req[t].op = "ApiDelete" /\ req[t].actor # Mods(req[t].object)[1]) =>
      /\ pc[t] \in {"d_auth", "done"}
      /\ Done(t) => res[t] # "ok"
      /\ Events(t, "write") = {}
      /\ Events(t, "notify") = {}
      /\ Events(t, "fwd") = {}
      /\ deleted[req[t].object] = pre[t].deleted

\* An admin who is no moderator was turned away.
C6_Witness ==
  \E t \in Tasks :
    /\ req[t].op = "ApiDelete"
    /\ req[t].actor = "adm"
    /\ req[t].object = "c1"
    /\ req[t].flag # deleted["c1"]
    /\ Done(t)
    /\ res[t] = "no_community_edit_allowed"

(***************************************************************************)
(* C7: a Delete of the local community c1 by its top moderator m1 that     *)
(* returns Ok ends with c1.deleted=true, exactly one notification, tagged  *)
(* DeleteCommunity and carrying m1, and exactly one Delete activity        *)
(* enqueued for c1's followers.                                            *)
(***************************************************************************)
C7_TopModDeleteScenario ==
  \A t \in Tasks :
    (req[t].op = "ApiDelete" /\ req[t].flag /\ Succeeded(t)) =>
      /\ req[t].actor = Mods(req[t].object)[1]
      /\ deleted[req[t].object]
      /\ WroteOnce(t, "deleted", TRUE)
      /\ NotifiedOnce(t, "DeleteCommunity", req[t].actor)
      /\ Cardinality(Events(t, "fwd")) = 1
      /\ \A i \in Events(t, "fwd") :
           /\ trace[t][i].obj = req[t].object
           /\ trace[t][i].tag = "Delete"
           /\ trace[t][i].val = FALSE
           /\ trace[t][i].who = req[t].actor

C7_Witness ==
  \E t \in Tasks :
    /\ req[t].op = "ApiDelete"
    /\ req[t].actor = "m1"
    /\ req[t].object = "c1"
    /\ req[t].flag
    /\ ~pre[t].deleted
    /\ Succeeded(t)
    /\ deleted["c1"]

(***************************************************************************)
(* C8: in DeleteCommunity, RemoveCommunity and the inbound DeleteCommunity *)
(* handler a failure of the forwarding step is not the operation's error:  *)
(* no such request ends with the forwarding error as its result.           *)
(***************************************************************************)
C8_ForwardFailureNotReturned ==
  \A t \in Tasks :
    (req[t].op \in {"ApiDelete", "ApiRemove", "InDelete"} /\ Done(t)) =>
      res[t] # "ForwardError"

(***************************************************************************)
(* C9: in every handler an activity is enqueued for the followers only     *)
(* after the flag update of the same request has been written.             *)
(***************************************************************************)
C9_ForwardAfterWrite ==
  \A t \in Tasks :
    \A i \in Events(t, "fwd") : \E j \in Events(t, "write") : j < i

(***************************************************************************)
(* C10: a notification is emitted only after the flag update of the same   *)
(* request has been written, and a request whose flag update failed with a *)
(* storage error fails and emits no notification.                          *)
(***************************************************************************)
C10_NotifyAfterWrite ==
  \A t \in Tasks :
    /\ \A i \in Events(t, "notify") : \E j \in Events(t, "write") : j < i
    /\ (Done(t) /\ res[t] = "StorageError") => Events(t, "notify") = {}
    /\ (Done(t) /\ Events(t, "write") = {}) => res[t] # "ok"

\* An inbound Delete got as far as its flag update, which failed.
C10_Witness ==
  \E t \in Tasks :
    /\ req[t].op = "InDelete"
    /\ Done(t)
    /\ res[t] = "StorageError"
    /\ Events(t, "fwd") # {}
    /\ Events(t, "write") = {}
    /\ Events(t, "notify") = {}

(***************************************************************************)
(* C11: a RemoveCommunity request that fails with a storage error has      *)
(* persisted the removed flag and the moderation-log entry both or         *)
(* neither, and in particular has not changed the flag without the entry.  *)
(***************************************************************************)
C11_RemoveAllOrNothing ==
  \A t \in Tasks :
    (req[t].op = "ApiRemove" /\ Done(t) /\ res[t] = "StorageError") =>
      /\ (Events(t, "write") = {}) <=> (Events(t, "log") = {})
      /\ removed[req[t].object] = pre[t].removed

(***************************************************************************)
(* C12: an inbound Delete is forwarded to followers if and only if its     *)
(* target community has local=true; for a community with local=false, a    *)
(* mirror already in storage included, it is never forwarded.              *)
(***************************************************************************)
C12_LocalFlagPicksPath ==
  \A t \in Tasks :
    req[t].op = "InDelete" =>
      /\ Events(t, "fwd") # {} => Local(req[t].object)
      /\ Succeeded(t) => (Events(t, "fwd") # {} <=> Local(req[t].object))

NeverDeleted(t) == ~pre[t].deleted /\ ~pre[t].removed

(***************************************************************************)
(* C14 as stated: an Undo(Delete) for an object, of any kind, that was     *)
(* never deleted or removed is accepted: unless verification or a          *)
(* collaborator fails, the handler returns success.                        *)
(***************************************************************************)
C14_UndoOfActiveAccepted ==
  \A t \in Tasks :
    (req[t].op = "InUndo" /\ NeverDeleted(t) /\ Done(t)
       /\ res[t] \notin OutsideErrors) =>
      res[t] = "ok"

(***************************************************************************)
(* C14 amended: an Undo(Delete) for an object, of any kind, that was never *)
(* deleted or removed is not rejected on account of the object's state:    *)
(* the only rejection of the handler's own is that of an undo-remove of a  *)
(* local community; otherwise it succeeds with one write of false, and the *)
(* object's deleted and removed flags are false throughout.                *)
(***************************************************************************)
C14_UndoOfActiveNotRefused ==
  \A t \in Tasks :
    (req[t].op = "InUndo" /\ NeverDeleted(t)) =>
      /\ ~deleted[req[t].object]
      /\ ~removed[req[t].object]
      /\ Done(t) =>
           /\ res[t] \in OutsideErrors
                           \cup {"ok", "only_local_admin_can_restore"}
           /\ res[t] = "only_local_admin_can_restore" =>
                /\ req[t].summary
                /\ req[t].object \in Communities
                /\ Local(req[t].object)
           /\ res[t] = "ok" =>
                WroteOnce(t, IF req[t].summary THEN "removed" ELSE "deleted",
                          FALSE)

\* An undo-remove of a post that was never removed went through.
C14_Witness ==
  \E t \in Tasks :
    /\ req[t].op = "InUndo"
    /\ req[t].object \in Posts
    /\ req[t].summary
    /\ NeverDeleted(t)
    /\ Succeeded(t)
    /\ NotifiedOnce(t, "EditPost", "none")

(***************************************************************************)
(* C17: an inbound Undo(Delete) with a summary that targets a community    *)
(* with local=true is rejected whoever its actor is: it never gets past    *)
(* the read of receive_undo_remove_action, writes no flag and emits no     *)
(* notification.                                                           *)
(***************************************************************************)
C17_UndoRemoveOfLocalRejected ==
  \A t \in Tasks :
    (req[t].op = "InUndo" /\ req[t].summary
       /\ req[t].object \in Communities /\ Local(req[t].object)) =>
      /\ pc[t] \in {"u_verify", "u_recv", "u_rm_read", "done"}
      /\ Done(t) => res[t] # "ok"
      /\ Events(t, "write") = {}
      /\ Events(t, "notify") = {}
      /\ removed[req[t].object] = pre[t].removed

\* A moderator's verified undo-remove of the removed local community was
\* turned away by receive.
C17_Witness ==
  \E t \in Tasks :
    /\ req[t].op = "InUndo"
    /\ req[t].summary
    /\ req[t].object = "c1"
    /\ IsMod(req[t].actor, "c1")
    /\ pre[t].removed
    /\ Done(t)
    /\ res[t] = "only_local_admin_can_restore"
    /\ removed["c1"]

\* Every flag write of the request is a write of `flag`.
WritesOnly(t, flag) ==
  \A i \in Events(t, "write") :
    trace[t][i].obj = req[t].object /\ trace[t][i].tag = flag

(***************************************************************************)
(* C18: an Undo with a summary writes only the removed flag, to false, and *)
(* leaves deleted as it was; an Undo without a summary writes only the     *)
(* deleted flag, to false, and leaves removed as it was; the local         *)
(* DeleteCommunity changes only deleted and RemoveCommunity only removed.  *)
(***************************************************************************)
C18_OnlyTheSelectedFlag ==
  \A t \in Tasks :
    /\ (req[t].op = "ApiRemove" \/ (req[t].op = "InUndo" /\ req[t].summary)) =>
         /\ WritesOnly(t, "removed")
         /\ deleted[req[t].object] = pre[t].deleted
    /\ (req[t].op = "ApiDelete" \/ (req[t].op = "InUndo" /\ ~req[t].summary)) =>
         /\ WritesOnly(t, "deleted")
         /\ removed[req[t].object] = pre[t].removed
    /\ (req[t].op = "InUndo" /\ Succeeded(t)) =>
         IF req[t].summary THEN ~removed[req[t].object]
                           ELSE ~deleted[req[t].object]
    /\ (req[t].op \in {"ApiRemove", "ApiDelete"} /\ Succeeded(t)) =>
         IF req[t].op = "ApiRemove"
         THEN removed[req[t].object] = req[t].flag
         ELSE deleted[req[t].object] = req[t].flag

\* An undo-remove of a community that was deleted as well: still deleted.
C18_Witness ==
  \E t \in Tasks :
    /\ req[t].op = "InUndo"
    /\ req[t].summary
    /\ pre[t].deleted
    /\ pre[t].removed
    /\ Succeeded(t)
    /\ deleted[req[t].object]
    /\ ~removed[req[t].object]

(***************************************************************************)
(* C16: an inbound Delete that targets a community storage already knows   *)
(* passes verify only if its actor is a moderator of that community;       *)
(* from any other actor it fails in verify, so that receive does not run   *)
(* and no flag, notification or forwarding results.                        *)
(***************************************************************************)
C16_KnownCommunityNeedsModerator ==
  \A t \in Tasks :
    (req[t].op = "InDelete" /\ pre[t].known
       /\ ~IsMod(req[t].actor, req[t].object)) =>
      /\ pc[t] \in {"i_verify", "done"}
      /\ Done(t) => res[t] # "ok"
      /\ Events(t, "write") = {}
      /\ Events(t, "notify") = {}
      /\ Events(t, "fwd") = {}
      /\ deleted[req[t].object] = pre[t].deleted

\* The delivery in hand follows one that was aborted after its commit.
Redelivered(t) == req[t].op = "InDelete" /\ Aborts(t) # {} /\ res[t] # "aborted"

(***************************************************************************)
(* C15: when the handling of an inbound Delete was aborted after the flag  *)
(* update committed, the community stays deleted, and the redelivered      *)
(* activity, which verify admitted the first time, is not refused as       *)
(* unauthorised: once its collaborators answer it ends with Ok, the flag   *)
(* written again and the notification emitted.                             *)
(***************************************************************************)
C15_RedeliveryReconverges ==
  \A t \in Tasks :
    Redelivered(t) =>
      /\ deleted[req[t].object]
      /\ Done(t) =>
           /\ res[t] # "NotAuthorized"
           /\ res[t] = "ok" =>
                /\ WroteOnce(t, "deleted", TRUE)
                /\ NotifiedOnce(t, "DeleteCommunity", "none")

(***************************************************************************)
(* C19: an inbound Delete that verify admitted with the community absent   *)
(* from storage (the 'community action sent to followers' branch) is not   *)
(* handled by receive on the 'remote mod' branch: it fetches no acting     *)
(* person and forwards nothing, whatever the other tasks do meanwhile.     *)
(***************************************************************************)
C19_ReceiveFollowsVerify ==
  \A t \in Tasks :
    (/\ req[t].op = "InDelete"
     /\ trace[t] # <<>>
     /\ trace[t][1].e = "read"
     /\ ~trace[t][1].val) =>
      /\ pc[t] \notin {"i_person", "i_fwd"}
      /\ Events(t, "fwd") = {}
      /\ \A i \in Events(t, "fetch") : trace[t][i].tag # "person"

\* Every RemoveCommunity request has returned Ok.
RemovesCompleted ==
  \A t \in Tasks : req[t].op = "ApiRemove" => Succeeded(t)

(***************************************************************************)
(* C20: once the concurrent RemoveCommunity requests on a community have   *)
(* completed, the newest moderation-log entry of the community records the *)
(* removed value that the community's flag has.                            *)
(***************************************************************************)
C20_NewestLogMatchesFlag ==
  RemovesCompleted =>
    \A c \in Communities :
      lastLog[c] # "none" => (lastLog[c] = "removed" <=> removed[c])

=============================================================================
